---- MODULE Spec2Model ----
(***************************************************************************)
(* Model of the DR Logger (src/dr_logger.py): the WatchedServer family,    *)
(* the DRLogger session (take_point cycle, dataset lifecycle, logging      *)
(* start/stop on a twisted LoopingCall) and the DRLoggerServer settings.   *)
(*                                                                         *)
(* The session runs on one twisted reactor: code between two `yield`s is   *)
(* atomic, and every `yield` of a remote call is a suspension point at     *)
(* which scheduler ticks and settings may run.  An action of this module   *)
(* is one reactor turn: the answer to the pending remote call arrives and  *)
(* the code runs up to its next remote call (or to its end).               *)
(***************************************************************************)
EXTENDS Integers, Sequences, FiniteSets, TLC

\* ------------------------------------------------------------------ bounds
MaxNameLen == 2     \* longest device name (characters)
MaxDevs == 2        \* longest device list a server reports
NGauges == 2        \* gauges the MKS server reports
NRuox == 1          \* channels of each array the ruox server reports
MaxDay == 2         \* days the clock runs through
MaxLoops == 2       \* LoopingCall objects alive at once
MaxOob == 1         \* out-of-band Take Point cycles in flight at once
MaxInterval == 2    \* time intervals a client can set (seconds)
MaxSchedInterval == 1   \* the same, in the behaviours of Spec
MaxFaults == 0      \* failures of remote calls in one behaviour of Spec
MaxCalls == 2       \* take_point calls in flight at once on a watcher on its own

\* ------------------------------------------------------- program constants
DIODE_LIST == <<"4Kin", "4Kout", "77K", "Ret", "Mix", "Xchg", "Still", "Pot">>
NDiodes == Len(DIODE_LIST)
Rate == 25          \* options['he_flow_rate'] of the configured MKS watchers

\* --------------------------------------------------------------- utilities
Last(s) == s[Len(s)]

Min2(a, b) == IF a <= b THEN a ELSE b

\* ------------------------------------------------------------ device names
\* A device name is a string; modelled as a sequence of characters so that
\* Python's `a in b` on strings (substring) can be computed.
Alphabet == {"a", "b"}
NamesUpTo(n) == UNION {[1..k -> Alphabet] : k \in 1..n}
DevNames == NamesUpTo(MaxNameLen)

\* Python: s in t, for strings
IsSubstring(s, t) ==
    \E i \in 0..(Len(t) - Len(s)) : SubSeq(t, i + 1, i + Len(s)) = s

\* list_devices answers a list of (id, name) pairs
DevListsOf(names) ==
    UNION {{[i \in 1..k |-> <<i - 1, ns[i]>>] : ns \in [1..k -> names]} : k \in 0..MaxDevs}
DevLists == DevListsOf(DevNames)

\* options.get('device', None): [has |-> FALSE] is None
NoDevice == [has |-> FALSE, name |-> <<>>]
Device(n) == [has |-> TRUE, name |-> n]

\* ------------------------------------------------------------------ errors
\* The message of a labrad error (T.Error) decides the recovery; a message
\* is modelled by what the code looks for in it.
DNS == "DeviceNotSelectedError"
NDS == "NoDatasetError"
OTH == "other error"
SNF == "server not found"           \* ServerNotFoundError
NOD == "MKS server did not return data."   \* NoMKSDataError
WMsgs == {DNS, OTH}                 \* messages a call to an instrument server can fail with
SMsgs == {NDS, OTH}                 \* messages a call to the data vault can fail with

\* str(err) of a labrad error: a rendering of the error, not its msg
Str(m) == <<"Error", m>>

\* ---------------------------------------------------------------- watchers
\* A watcher's configuration (immutable): its class, options['device'] and,
\* for MKS, options['channel'] / options['he_flow_rate'].
NoFlow == [has |-> FALSE, channel |-> "", rate |-> 0]
Flow(label) == [has |-> TRUE, channel |-> label, rate |-> Rate]
Watcher(kind, device, flow) == [kind |-> kind, device |-> device, flow |-> flow]

\* class attribute server_name
ServerName(kind) ==
    CASE kind = "mks" -> "mks_gauge_server"
      [] kind = "diodes" -> "lakeshore_diodes"
      [] kind = "ruox" -> "lakeshore_ruox"

\* get_gauge_list of the MKS server
GaugePool == <<"P1", "P2", "P3", "P4">>
GaugeNames == SubSeq(GaugePool, 1, NGauges)
\* named_temperatures / named_resistances of the ruox server
RuoxPool == <<"R1", "R2", "R3">>
RuoxNames == SubSeq(RuoxPool, 1, NRuox)

\* MKS.channel: the attribute is absent until setup_he_flow has run
Unset == -2
NoChannel == -1      \* self.channel = None

\* A reading is a labrad Value: where it was measured, scaled, with a unit
Val(w, k, mult, unit) == [w |-> w, k |-> k, mult |-> mult, unit |-> unit]

\* x[x.unit]: the bare number of a Value
StripUnit(x) == <<x.w, x.k, x.mult>>

\* The first gauge named as options['channel'], counted from 0
FlowChannel(cfg) ==
    (CHOOSE k \in 1..NGauges :
        /\ GaugeNames[k] = cfg.flow.channel
        /\ \A j \in 1..(k - 1) : GaugeNames[j] # cfg.flow.channel) - 1

\* What the server's read answers when it answers: get_readings of the MKS
\* server (possibly no data), temperatures of the diodes server, the packet
\* of temperatures and resistances of the ruox server
Readings(w, cfg) ==
    CASE cfg.kind = "mks" -> {<<>>, [k \in 1..NGauges |-> Val(w, k, 1, "Torr")]}
      [] cfg.kind = "diodes" -> {[k \in 1..NDiodes |-> Val(w, k, 1, "K")]}
      [] cfg.kind = "ruox" -> {[k \in 1..NRuox |-> Val(w, k, 1, "K")]
                               \o [k \in 1..NRuox |-> Val(w, NRuox + k, 1, "Ohm")]}

\* WatchedServer.select_device: which device it asks the server to select,
\* given options['device'] and the server's device list.
\*   "default": server.select_device() without a name (the first device)
\*   "named":   server.select_device(name)
\*   "nomatch": the else branch of the for loop
SelectChoice(device, devs) ==
    IF ~device.has
    THEN [kind |-> "default", name |-> <<>>]
    ELSE IF \E i \in 1..Len(devs) : devs[i][2] = device.name
    THEN [kind |-> "named", name |-> device.name]
    ELSE IF \E i \in 1..Len(devs) : IsSubstring(device.name, devs[i][2])
    THEN [kind |-> "named",
          name |-> devs[CHOOSE i \in 1..Len(devs) :
                          /\ IsSubstring(device.name, devs[i][2])
                          /\ \A j \in 1..(i - 1) : ~IsSubstring(device.name, devs[j][2])][2]]
    ELSE [kind |-> "nomatch", name |-> <<>>]

\* What NoSuchDeviceError("No such device: %s" % self.device) raises:
\* WatchedServer sets no attribute `device`, so evaluating the argument
\* raises AttributeError before the labrad error is built.
NoMatchRaises == "Attr"

\* The kinds of selection a device option can lead to, over every device
\* list the server can answer
DeviceOptions == {NoDevice} \cup {Device(n) : n \in DevNames}
SelectKinds == [d \in DeviceOptions |-> {SelectChoice(d, devs).kind : devs \in DevLists}]

\* A watcher's mutable state
WState(active, channel) == [active |-> active, channel |-> channel]

\* The outcome of one WatchedServer.take_point call: what it returns or
\* raises, the watcher's state after it, the device selection it asked for
\* and the trace of the calls it made: <<"_take_point", result>> and
\* <<"select_device", result>>, a result being "ok", the message of a labrad
\* error or the name of another exception.
TPOut(exc, msg, r, ws, sel, trace) ==
    [exc |-> exc, msg |-> msg, r |-> r, ws |-> ws, sel |-> sel, trace |-> trace]

ResultOf(o) == IF o.exc = "none" THEN "ok" ELSE IF o.exc = "T" THEN o.msg ELSE o.exc

\* ----------------------------------------------------------- get_variables
\* "label (legend) [unit]"
Var(label, legend, unit) == [label |-> label, legend |-> legend, unit |-> unit]
HeFlowVar == Var("He Flow", "LHe", "L/h")

\* A variant of MKS.get_variables that declares the derived flow first: the
\* properties on the order of the declared variables must reject it.
MKSVarsFlowFirst(point, names, channel) ==
    (IF channel # NoChannel THEN <<HeFlowVar>> ELSE <<>>)
    \o [k \in 1..Min2(Len(point), Len(names)) |-> Var(names[k], "Pressure", point[k].unit)]

\* MKS.get_variables, after its take_point returned `point`: zip(point, names)
MKSVars(point, names, channel) ==
    [k \in 1..Min2(Len(point), Len(names)) |-> Var(names[k], "Pressure", point[k].unit)]
    \o (IF channel # NoChannel THEN <<HeFlowVar>> ELSE <<>>)

\* Diodes.get_variables
DiodesVars == [k \in 1..NDiodes |-> Var(DIODE_LIST[k], "Diode", "K")]

\* Ruox.get_variables, after its take_point
RuoxVars ==
    [k \in 1..NRuox |-> Var(RuoxNames[k], "Ruox", "K")]
    \o [k \in 1..NRuox |-> Var(RuoxNames[k], "Ruox Res", "Ohm")]

\* ------------------------------------------------ a watcher call in flight
\* A take_point or get_variables coroutine of a watcher, suspended on a
\* remote call: the call awaited (`at`), which _take_point attempt it belongs
\* to, the readings held meanwhile, the selection asked for and the trace.
\*   "read"    get_readings / temperatures / the packet (lines 153, 200, 214)
\*   "gauges"  get_gauge_list of setup_he_flow (line 177)
\*   "list"    list_devices of select_device (line 102)
\*   "select"  server.select_device (lines 105-112)
\*   "names"   get_gauge_list / named_temperatures of get_variables (166, 223)
\*   "names2"  named_resistances of get_variables (line 225)
Call(at, try, r, sel, trace, gv) ==
    [at |-> at, try |-> try, r |-> r, sel |-> sel, trace |-> trace, gv |-> gv]
NewCall(gv) == Call("read", 1, <<>>, "none", <<>>, gv)
NoCall == Call("none", 0, <<>>, "none", <<>>, FALSE)

\* One reactor turn of a call: the answer awaited arrives and the code runs
\* to its next remote call (fin FALSE) or to its end (fin TRUE: what it
\* returns or raises).  ws is the watcher's state after the turn, cost the
\* failures the environment produced in it.
Turn(fin, exc, msg, r, vars, ws, call, cost) ==
    [fin |-> fin, exc |-> exc, msg |-> msg, r |-> r, vars |-> vars, ws |-> ws,
     call |-> call, cost |-> cost]
GoOn(call, ws, cost) == Turn(FALSE, "none", "", <<>>, <<>>, ws, call, cost)

Traced(call, what, res) == [call EXCEPT !.trace = Append(@, <<what, res>>)]

\* take_point ends (returnValue or raise).  Inside get_variables a returned
\* point is followed by the call for the names (lines 165-166, 222-223).
TakePointEnds(call, ws, exc, msg, r, cost) ==
    IF call.gv /\ exc = "none"
    THEN GoOn([call EXCEPT !.at = "names", !.r = r], ws, cost)
    ELSE Turn(TRUE, exc, msg, r, <<>>, ws, call, cost)

\* A variant of AttemptEnds that retries the read without selecting a
\* device: the properties on the reselect-and-retry must reject it.
AttemptEndsNoSelect(call, ws, exc, msg, r, cost) ==
    LET c2 == Traced(call, "_take_point", IF exc = "none" THEN "ok"
                                          ELSE IF exc = "T" THEN msg ELSE exc)
    IN  IF exc = "none"
        THEN TakePointEnds(c2, [ws EXCEPT !.active = TRUE], exc, msg, r, cost)
        ELSE IF call.try = 1 /\ exc = "T"
        THEN IF msg = DNS
             THEN GoOn([c2 EXCEPT !.at = "read", !.try = 2, !.r = <<>>],
                       [ws EXCEPT !.active = FALSE], cost)
             ELSE TakePointEnds(c2, [ws EXCEPT !.active = FALSE], exc, msg, <<>>, cost)
        ELSE TakePointEnds(c2, ws, exc, msg, <<>>, cost)

\* self._take_point() ends inside WatchedServer.take_point (lines 125-140):
\* a reading sets active and is returned; a labrad error of the first attempt
\* clears active and, for "DeviceNotSelectedError", enters select_device up
\* to list_devices; anything else is propagated with active left alone.
AttemptEnds(call, ws, exc, msg, r, cost) ==
    LET c2 == Traced(call, "_take_point", IF exc = "none" THEN "ok"
                                          ELSE IF exc = "T" THEN msg ELSE exc)
    IN  IF exc = "none"
        THEN TakePointEnds(c2, [ws EXCEPT !.active = TRUE], exc, msg, r, cost)
        ELSE IF call.try = 1 /\ exc = "T"
        THEN IF msg = DNS
             THEN GoOn([c2 EXCEPT !.at = "list", !.r = <<>>],
                       [ws EXCEPT !.active = FALSE], cost)
             ELSE TakePointEnds(c2, [ws EXCEPT !.active = FALSE], exc, msg, <<>>, cost)
        ELSE TakePointEnds(c2, ws, exc, msg, <<>>, cost)

\* MKS._take_point from `if not r` on (lines 157-161), the channel known
MKSEnds(w, cfg, call, ws, r, cost) ==
    IF r = <<>>
    THEN AttemptEnds(call, ws, "T", NOD, <<>>, cost)
    ELSE AttemptEnds(call, ws, "none", "",
                     IF ws.channel # NoChannel
                     THEN Append(r, Val(w, r[ws.channel + 1].k, cfg.flow.rate,
                                        r[ws.channel + 1].unit))
                     ELSE r,
                     cost)

\* The read answers r.  MKS: without a channel attribute setup_he_flow runs,
\* up to get_gauge_list when both options are configured.
ReadAnswered(w, cfg, call, ws, r) ==
    LET cost == IF r = <<>> THEN 1 ELSE 0
    IN  IF cfg.kind # "mks"
        THEN AttemptEnds(call, ws, "none", "", r, cost)
        ELSE IF ws.channel # Unset
        THEN MKSEnds(w, cfg, call, ws, r, cost)
        ELSE IF cfg.flow.has
        THEN GoOn([call EXCEPT !.at = "gauges", !.r = r], ws, cost)
        ELSE MKSEnds(w, cfg, call, [ws EXCEPT !.channel = NoChannel], r, cost)

\* get_gauge_list of setup_he_flow answers (lines 177-186): the channel is
\* the index of the gauge named as options['channel']; with no such gauge
\* the `for ... else` branch sets self.channel = None and then formats
\* self.device[0], an attribute no watcher has: AttributeError.
GaugesAnswered(w, cfg, call, ws) ==
    IF \E k \in 1..NGauges : GaugeNames[k] = cfg.flow.channel
    THEN MKSEnds(w, cfg, call, [ws EXCEPT !.channel = FlowChannel(cfg)], call.r, 0)
    ELSE AttemptEnds(call, [ws EXCEPT !.channel = NoChannel], "Attr", "", <<>>, 0)

\* list_devices answers (lines 102-115): the selection is asked for, or no
\* device matches
ListAnswered(cfg, call, ws) ==
    {IF k = "nomatch"
     THEN TakePointEnds(Traced([call EXCEPT !.sel = k], "select_device", NoMatchRaises),
                        ws, NoMatchRaises, "No such device", <<>>, 0)
     ELSE GoOn([call EXCEPT !.at = "select", !.sel = k], ws, 0)
     : k \in SelectKinds[cfg.device]}

\* The turns a call of watcher w (configuration cfg, state ws) can take
CallTurns(w, cfg, ws, call) ==
    CASE call.at = "read" ->
           \* self.cxn[self.name] raised KeyError: ServerNotFoundError,
           \* active is left alone
           (IF call.try = 1
            THEN {Turn(TRUE, "T", SNF, <<>>, <<>>, ws, call, 1)}
            ELSE {})
           \cup {AttemptEnds(call, ws, "T", m, <<>>, 1) : m \in WMsgs}
           \cup {ReadAnswered(w, cfg, call, ws, r) : r \in Readings(w, cfg)}
      [] call.at = "gauges" ->
           {AttemptEnds(call, ws, "T", m, <<>>, 1) : m \in WMsgs}
           \cup {GaugesAnswered(w, cfg, call, ws)}
      [] call.at = "list" ->
           {TakePointEnds(Traced(call, "select_device", m), ws, "T", m, <<>>, 1)
            : m \in WMsgs}
           \cup ListAnswered(cfg, call, ws)
      [] call.at = "select" ->
           {TakePointEnds(Traced(call, "select_device", m), ws, "T", m, <<>>, 1)
            : m \in WMsgs}
           \cup {GoOn(Traced([call EXCEPT !.at = "read", !.try = 2],
                             "select_device", "ok"), ws, 0)}
      [] call.at = "names" ->
           {Turn(TRUE, "T", m, <<>>, <<>>, ws, call, 1) : m \in WMsgs}
           \cup {IF cfg.kind = "mks"
                 THEN Turn(TRUE, "none", "", <<>>,
                           MKSVars(call.r, GaugeNames, ws.channel), ws, call, 0)
                 ELSE GoOn([call EXCEPT !.at = "names2"], ws, 0)}
      [] call.at = "names2" ->
           {Turn(TRUE, "T", m, <<>>, <<>>, ws, call, 1) : m \in WMsgs}
           \cup {Turn(TRUE, "none", "", <<>>, RuoxVars, ws, call, 0)}

\* ------------------------------------------------------------------- state
VARIABLES
    watchers,       \* DRLogger.watchers: the configurations, in list order
    wstate,         \* per watcher: active, channel
    isLogging,      \* DRLogger.isLogging
    timeInterval,   \* DRLogger.timeInterval
    data_vault,     \* DRLogger.data_vault is not None
    currentDay,     \* DRLogger.currentDay (0 is '')
    errors,         \* DRLogger.errors
    loop,           \* DRLogger.loop / loopDone: the LoopingCall they refer to
    loops,          \* the LoopingCall objects
    cycles,         \* the DRLogger.take_point coroutines in flight
    store,          \* the data vault: its datasets and the one open in ctx
    today,          \* the wall clock, in days
    faults,         \* the failures the environment may still produce (NoLimit: any)
    done,           \* observation: the cycle that ended in the last step
    lastStop,       \* observation: the logging(False) call that returned in the last step
    stopped,        \* observation: a stop has returned and no logging(True) since
    obs             \* observation: the last stand-alone call of a watcher operation

vars == <<watchers, wstate, isLogging, timeInterval, data_vault, currentDay, errors,
          loop, loops, cycles, store, today, faults, done, lastStop, stopped, obs>>

NW == Len(watchers)

\* The environment's failures: any number of them, or a budget
NoLimit == [limited |-> FALSE, left |-> 0]
Budget(n) == [limited |-> TRUE, left |-> n]
Afford(n) == ~faults.limited \/ n <= faults.left
Spend(n) == IF faults.limited THEN [faults EXCEPT !.left = @ - n] ELSE faults

\* time.strftime("%d"): the day of the month
Strftime_d(t) == ((t - 1) % 31) + 1

\* Cycles 1..MaxLoops are the scheduler's (cycle l is LoopingCall l's call in
\* flight); the others are started by the Take Point setting.
LoopIds == 1..MaxLoops
OobIds == (MaxLoops + 1)..(MaxLoops + MaxOob)
CycleIds == LoopIds \cup OobIds

\* A take_point coroutine: where it is suspended and its locals, `call`
\* being the watcher call it waits for.  t0, mk, polled and ops observe it:
\* the day of its timestamp, the day its make_dataset resolved the name, the
\* watchers it polled and the store calls it made.
Idle == [pc |-> "idle", i |-> 0, call |-> NoCall, data |-> <<>>, errs |-> <<>>, phase |-> 0,
         deps |-> <<>>, t0 |-> 0, mk |-> 0, polled |-> <<>>, ops |-> <<>>]

\* take_point up to its first remote call: data = [time.time() * Unit('s')]
NewCycle ==
    [pc |-> "poll", i |-> 1, call |-> NewCall(FALSE), data |-> <<Val(0, today, 1, "s")>>,
     errs |-> <<>>, phase |-> 0, deps |-> <<>>, t0 |-> today, mk |-> 0, polled |-> <<>>, ops |-> <<>>]

InFlight(c) == cycles[c].pc # "idle"
SchedInFlight == \E l \in LoopIds : InFlight(l)

\* A LoopingCall: running, its pending delayed call ("pending"), its call in
\* flight ("inflight") or neither, and the setting suspended on its deferred.
DeadLoop == [running |-> FALSE, call |-> "none", waiter |-> "none", interval |-> 0]
\* LoopingCall(self.take_point).start(interval, now=True): the first call is made at once
NewLoop(ti) == [running |-> TRUE, call |-> "inflight", waiter |-> "none", interval |-> ti]
IsFree(l) == ~loops[l].running /\ loops[l].call # "inflight"
FreeLoops == {l \in LoopIds : IsFree(l)}
MinOf(S) == CHOOSE x \in S : \A y \in S : x <= y

NoDone == [c |-> 0, t0 |-> 0, polled |-> <<>>, ops |-> <<>>, row |-> <<>>,
           errs |-> <<>>, aborted |-> FALSE]

\* ------------------------------------------------- the end of a cycle
\* A logging(False) call returns: what it observes
StopReturns(inflight) == [n |-> 1, inflight |-> inflight]
NoStop == [n |-> 0, inflight |-> FALSE]

\* The cycle's deferred fires.  For a scheduler cycle this is LoopingCall's
\* callback: a running loop schedules its next call; a stopped one fires the
\* deferred returned by start(), which resumes the logging(False) suspended
\* on it (`print 'loop stopped'; self.isLogging = False`), and, for the Time
\* Interval setting, goes on to logging(True).
AfterCycle(c) ==
    IF c \in OobIds
    THEN /\ cycles' = [cycles EXCEPT ![c] = Idle]
         /\ lastStop' = NoStop
         /\ UNCHANGED <<isLogging, loop, loops, stopped>>
    ELSE IF loops[c].running
    THEN /\ cycles' = [cycles EXCEPT ![c] = Idle]
         /\ loops' = [loops EXCEPT ![c].call = "pending"]
         /\ lastStop' = NoStop
         /\ UNCHANGED <<isLogging, loop, stopped>>
    ELSE IF loops[c].waiter = "none"
    THEN /\ cycles' = [cycles EXCEPT ![c] = Idle]
         /\ loops' = [loops EXCEPT ![c] = DeadLoop]
         /\ lastStop' = NoStop
         /\ UNCHANGED <<isLogging, loop, stopped>>
    ELSE IF loops[c].waiter = "logging"
    THEN /\ cycles' = [cycles EXCEPT ![c] = Idle]
         /\ loops' = [loops EXCEPT ![c] = DeadLoop]
         /\ isLogging' = FALSE
         /\ lastStop' = StopReturns(\E l \in LoopIds \ {c} : InFlight(l))
         /\ stopped' = TRUE
         /\ UNCHANGED loop
    ELSE \* waiter = "interval": logging(False) returns, then logging(True)
         /\ cycles' = [cycles EXCEPT ![c] = NewCycle]
         /\ loops' = [loops EXCEPT ![c] = NewLoop(timeInterval)]
         /\ loop' = c
         /\ isLogging' = TRUE
         /\ lastStop' = StopReturns(\E l \in LoopIds \ {c} : InFlight(l))
         /\ stopped' = FALSE

\* The cycle goes on, suspended at its next remote call
Continue(c, cyc, dv, cd, n) ==
    /\ Afford(n)
    /\ faults' = Spend(n)
    /\ cycles' = [cycles EXCEPT ![c] = cyc]
    /\ data_vault' = dv
    /\ currentDay' = cd
    /\ done' = NoDone
    /\ lastStop' = NoStop
    /\ UNCHANGED <<errors, isLogging, loop, loops, stopped>>

\* A variant of Finish in which an exception escapes take_point: the
\* LoopingCall would stop and fail its deferred.  The properties on the
\* scheduler surviving a failed cycle must reject it.
FinishStoppingLoop(c, cyc, aborted, dv, cd, n) ==
    /\ Afford(n)
    /\ faults' = Spend(n)
    /\ errors' = IF aborted THEN errors ELSE cyc.errs
    /\ data_vault' = dv
    /\ currentDay' = cd
    /\ done' = [c |-> c, t0 |-> cyc.t0, polled |-> cyc.polled, ops |-> cyc.ops,
                row |-> cyc.data, errs |-> cyc.errs, aborted |-> aborted]
    /\ IF aborted /\ c \in LoopIds
       THEN /\ cycles' = [cycles EXCEPT ![c] = Idle]
            /\ loops' = [loops EXCEPT ![c] = DeadLoop]
            /\ lastStop' = NoStop
            /\ UNCHANGED <<isLogging, loop, stopped>>
       ELSE AfterCycle(c)

\* The cycle ends: by `self.errors = errors` (lines 347, 371), or in the
\* outer `except Exception` (aborted), which leaves self.errors alone.
Finish(c, cyc, aborted, dv, cd, n) ==
    /\ Afford(n)
    /\ faults' = Spend(n)
    /\ errors' = IF aborted THEN errors ELSE cyc.errs
    /\ data_vault' = dv
    /\ currentDay' = cd
    /\ done' = [c |-> c, t0 |-> cyc.t0, polled |-> cyc.polled, ops |-> cyc.ops,
                row |-> cyc.data, errs |-> cyc.errs, aborted |-> aborted]
    /\ AfterCycle(c)

\* The loop of lines 326-328 from watcher i on, up to its next remote call:
\* Diodes.get_variables is an ordinary function, its list is taken at once;
\* past the last watcher the cycle is about to call data_vault.new
RECURSIVE VarsFrom(_, _)
VarsFrom(cyc, i) ==
    IF i > NW
    THEN [cyc EXCEPT !.pc = "new", !.i = NW, !.call = NoCall]
    ELSE IF watchers[i].kind = "diodes"
    THEN VarsFrom([cyc EXCEPT !.deps = @ \o DiodesVars], i + 1)
    ELSE [cyc EXCEPT !.pc = "vars", !.i = i, !.call = NewCall(TRUE)]

\* make_dataset goes on with watcher i.  After the last one,
\* yield self.data_vault.new(name, indeps, deps, context=self.ctx) (line 332)
\* is issued on whatever self.data_vault is at that moment: on None it raises
\* AttributeError and nothing is sent.
GetVariablesFrom(c, cyc, i, dv, cd, n) ==
    LET nxt == VarsFrom(cyc, i)
    IN  IF nxt.pc = "new" /\ ~dv
        THEN Finish(c, [nxt EXCEPT !.ops = Append(@, "make:AttributeError")], TRUE, dv, cd, n)
        ELSE Continue(c, nxt, dv, cd, n)

\* make_dataset up to its first remote call: self.cxn['data_vault'] (KeyError
\* when the data vault is not connected), cd (not waited for), the name,
\* self.currentDay = time.strftime("%d"), and the get_variables loop.
MakeDataset(c, cyc, dv, cd, n) ==
    \/ Finish(c, [cyc EXCEPT !.ops = Append(@, "make:KeyError")], TRUE, dv, cd, n + 1)
    \/ GetVariablesFrom(c, [cyc EXCEPT !.deps = <<>>, !.mk = today,
                                       !.ops = Append(@, "make")],
                        1, TRUE, Strftime_d(today), n)

\* yield self.data_vault.add(data, context=self.ctx): issued on whatever
\* self.data_vault is at that moment
IssueAdd(c, cyc, dv, cd, n) ==
    IF ~dv
    THEN Finish(c, [cyc EXCEPT !.ops = Append(@, "add:AttributeError")], TRUE, dv, cd, n)
    ELSE Continue(c, [cyc EXCEPT !.pc = "add", !.ops = Append(@, "add")], dv, cd, n)

\* A variant of StoreError that recovers from "dataset not found" once more
\* inside the recovery: the properties on the number of adds must reject it.
StoreErrorRecoveringTwice(c, cyc, m, dv, cd, n) ==
    IF cyc.phase \in {1, 2}
    THEN IF m = NDS
         THEN MakeDataset(c, [cyc EXCEPT !.phase = @ + 1], dv, cd, n)
         ELSE Finish(c, [cyc EXCEPT !.errs = Append(@, <<"General", Str(m)>>)], FALSE, dv, cd, n)
    ELSE Finish(c, [cyc EXCEPT !.errs = Append(@, <<"Data Vault", Str(m)>>)], FALSE, dv, cd, n)

\* A labrad error raised inside the try of lines 354-360 (phase 1) or inside
\* the recovery of lines 364-366 (phase 2)
StoreError(c, cyc, m, dv, cd, n) ==
    IF cyc.phase = 1
    THEN IF m = NDS
         THEN MakeDataset(c, [cyc EXCEPT !.phase = 2], dv, cd, n)
         ELSE Finish(c, [cyc EXCEPT !.errs = Append(@, <<"General", Str(m)>>)], FALSE, dv, cd, n)
    ELSE Finish(c, [cyc EXCEPT !.errs = Append(@, <<"Data Vault", Str(m)>>)], FALSE, dv, cd, n)

\* A variant of AfterPolls that processes the day rollover before it looks
\* at the errors: the frame of a cycle with a failed watcher must reject it.
AfterPollsRollingOver(c, cyc, n) ==
    LET dv == IF currentDay # Strftime_d(today) THEN FALSE ELSE data_vault
    IN  IF cyc.errs # <<>>
        THEN Finish(c, cyc, FALSE, dv, currentDay, n)
        ELSE LET stripped == [cyc EXCEPT !.data = [k \in 1..Len(cyc.data) |-> StripUnit(cyc.data[k])],
                                         !.call = NoCall,
                                         !.phase = 1]
             IN  IF ~dv
                 THEN MakeDataset(c, stripped, dv, currentDay, n)
                 ELSE IssueAdd(c, stripped, dv, currentDay, n)

\* Lines 346-360, once every watcher has been polled
AfterPolls(c, cyc, n) ==
    IF cyc.errs # <<>>
    THEN Finish(c, cyc, FALSE, data_vault, currentDay, n)
    ELSE LET stripped == [cyc EXCEPT !.data = [k \in 1..Len(cyc.data) |-> StripUnit(cyc.data[k])],
                                         !.call = NoCall,
                                     !.phase = 1]
             \* did the day roll over?  self.new_dataset()
             dv == IF currentDay # Strftime_d(today) THEN FALSE ELSE data_vault
         IN  IF ~dv
             THEN MakeDataset(c, stripped, dv, currentDay, n)
             ELSE IssueAdd(c, stripped, dv, currentDay, n)

\* ------------------------------------------------------ DRLogger.take_point
\* An answer to the take_point call of watcher i arrives (lines 340-345):
\* the call goes on to its next remote call, or ends and the cycle goes on
Poll(c) ==
    /\ cycles[c].pc = "poll"
    /\ LET cyc == cycles[c]
           i == cyc.i
       IN  \E o \in CallTurns(i, watchers[i], wstate[i], cyc.call) :
             LET seen == [cyc EXCEPT !.polled = Append(@, [w |-> i, res |-> ResultOf(o),
                                                          nomatch |-> o.call.sel = "nomatch"]),
                                     !.call = NewCall(FALSE)]
                 next == IF o.exc = "none"
                         THEN [seen EXCEPT !.data = @ \o o.r]
                         ELSE [seen EXCEPT !.errs = Append(@, <<ServerName(watchers[i].kind), o.msg>>)]
             IN  /\ wstate' = [wstate EXCEPT ![i] = o.ws]
                 /\ IF ~o.fin
                    THEN Continue(c, [cyc EXCEPT !.call = o.call], data_vault, currentDay,
                                  o.cost)
                    ELSE IF o.exc \notin {"none", "T"}
                    THEN Finish(c, seen, TRUE, data_vault, currentDay, o.cost)
                    ELSE IF i < NW
                    THEN Continue(c, [next EXCEPT !.i = i + 1], data_vault, currentDay,
                                  o.cost)
                    ELSE AfterPolls(c, next, o.cost)
    /\ UNCHANGED <<watchers, timeInterval, store, today, obs>>

\* make_dataset: an answer to the get_variables call of watcher i arrives
\* (lines 326-328)
Vars(c) ==
    /\ cycles[c].pc = "vars"
    /\ LET cyc == cycles[c]
           i == cyc.i
       IN  \E g \in CallTurns(i, watchers[i], wstate[i], cyc.call) :
             /\ wstate' = [wstate EXCEPT ![i] = g.ws]
             /\ IF ~g.fin
                THEN Continue(c, [cyc EXCEPT !.call = g.call], data_vault, currentDay,
                              g.cost)
                ELSE IF g.exc = "none"
                THEN GetVariablesFrom(c, [cyc EXCEPT !.deps = @ \o g.vars], i + 1,
                                      data_vault, currentDay, g.cost)
                ELSE IF g.exc = "T"
                THEN StoreError(c, [cyc EXCEPT !.ops = Append(@, "make:failed"),
                                               !.call = NoCall], g.msg,
                                data_vault, currentDay, g.cost)
                ELSE Finish(c, [cyc EXCEPT !.ops = Append(@, "make:failed")], TRUE,
                            data_vault, currentDay, g.cost)
    /\ UNCHANGED <<watchers, timeInterval, store, today, obs>>

\* A dataset of the data vault.  The data vault appends to the dataset open
\* in the context only, so the store is modelled by that dataset.
Dataset(day, indeps, deps) == [day |-> day, indeps |-> indeps, deps |-> deps, rows |-> {}]
NoDataset == [day |-> 0, indeps |-> <<>>, deps |-> <<>>, rows |-> {}]

\* make_dataset: the answer of data_vault.new arrives (line 332); on success
\* the dataset is open in the session's context and take_point issues the add
New(c) ==
    /\ cycles[c].pc = "new"
    /\ LET cyc == cycles[c]
       IN  \/ /\ store' = [open |-> TRUE,
                           dataset |-> Dataset(cyc.mk, <<"time [s]">>, cyc.deps)]
              /\ IssueAdd(c, [cyc EXCEPT !.ops = Append(@, "made")], data_vault, currentDay, 0)
           \/ /\ \E m \in SMsgs :
                    StoreError(c, [cyc EXCEPT !.ops = Append(@, "make:failed")], m,
                               data_vault, currentDay, 1)
              /\ UNCHANGED store
    /\ UNCHANGED <<watchers, wstate, timeInterval, today, obs>>

\* The answer of data_vault.add arrives (lines 360, 366).  The data vault
\* appends to the dataset open in the context; without one (none created, or
\* the dataset was lost) it answers NoDatasetError.
Add(c) ==
    /\ cycles[c].pc = "add"
    /\ LET cyc == cycles[c]
       IN  \/ /\ store.open
              /\ store' = [store EXCEPT !.dataset.rows = @ \cup {cyc.data}]
              /\ Finish(c, [cyc EXCEPT !.ops = Append(@, "added")], FALSE, data_vault,
                        currentDay, 0)
           \/ /\ store' = [store EXCEPT !.open = FALSE, !.dataset = NoDataset]
              /\ StoreError(c, [cyc EXCEPT !.ops = Append(@, "add:NoDataset")], NDS,
                            data_vault, currentDay, IF store.open THEN 1 ELSE 0)
           \/ /\ \E m \in SMsgs \ {NDS} :
                    StoreError(c, [cyc EXCEPT !.ops = Append(@, "add:failed")], m,
                               data_vault, currentDay, 1)
              /\ UNCHANGED store
    /\ UNCHANGED <<watchers, wstate, timeInterval, today, obs>>

\* --------------------------------------------------------------- scheduler
\* A LoopingCall's delayed call fires: the next cycle starts
Tick(l) ==
    /\ loops[l].running
    /\ loops[l].call = "pending"
    /\ loops' = [loops EXCEPT ![l].call = "inflight"]
    /\ cycles' = [cycles EXCEPT ![l] = NewCycle]
    /\ done' = NoDone
    /\ lastStop' = NoStop
    /\ UNCHANGED <<watchers, wstate, isLogging, timeInterval, data_vault, currentDay,
                   errors, loop, store, today, faults, stopped, obs>>

\* DRLogger.logging(True), lines 295-300, with the interval to start with
StartLogging(ti) ==
    IF ~isLogging
    THEN /\ FreeLoops # {}
         /\ LET l == MinOf(FreeLoops)
            IN  /\ loop' = l
                /\ loops' = [loops EXCEPT ![l] = NewLoop(ti)]
                /\ cycles' = [cycles EXCEPT ![l] = NewCycle]
         /\ isLogging' = TRUE
    ELSE UNCHANGED <<isLogging, loop, loops, cycles>>

\* DRLogger.logging(False), lines 301-309, called by `by` ("logging", "interval"):
\* loop.stop() cancels a pending call and fires the deferred at once; with the
\* call in flight the caller is suspended on self.loopDone; on a LoopingCall
\* that is not running stop() fails its assertion, which is swallowed.
\* The result tells how the call proceeds: "noop" (not logging), "suspended"
\* (waiting for the call in flight) or "returned" (isLogging set False at once).
StopLogging(by) ==
    IF ~isLogging
    THEN "noop"
    ELSE IF loops[loop].running /\ loops[loop].call = "inflight"
    THEN "suspended"
    ELSE "returned"

\* setting 12, Logging(start): what it does to the session
LoggingCall(start) ==
    /\ IF start
       THEN /\ StartLogging(timeInterval)
            /\ stopped' = FALSE
            /\ lastStop' = NoStop
       ELSE LET how == StopLogging("logging")
            IN  IF how = "noop"
                THEN /\ lastStop' = StopReturns(SchedInFlight)
                     /\ stopped' = TRUE
                     /\ UNCHANGED <<isLogging, loop, loops, cycles>>
                ELSE IF how = "suspended"
                THEN /\ loops' = [loops EXCEPT ![loop].running = FALSE,
                                               ![loop].waiter = "logging"]
                     /\ lastStop' = NoStop
                     /\ UNCHANGED <<isLogging, loop, cycles, stopped>>
                ELSE /\ loops' = [loops EXCEPT ![loop].running = FALSE,
                                               ![loop].call = IF @ = "pending" THEN "none" ELSE @]
                     /\ isLogging' = FALSE
                     /\ lastStop' = StopReturns(SchedInFlight)
                     /\ stopped' = TRUE
                     /\ UNCHANGED <<loop, cycles>>
    /\ done' = NoDone
    /\ UNCHANGED <<watchers, wstate, timeInterval, data_vault, currentDay, errors,
                   store, today, faults>>

LoggingCmd(start) == LoggingCall(start) /\ UNCHANGED obs

\* The same setting, observed: what was asked, the flag it found and whether
\* it changed the scheduler
LoggingObserved(start) ==
    /\ LoggingCall(start)
    /\ obs' = [op |-> "logging", start |-> start, was |-> isLogging,
               changed |-> (isLogging' # isLogging \/ loops' # loops \/ cycles' # cycles)]

\* DRLogger.shutdown: yield self.logging(False), observed: whether the call
\* had to wait for a cycle in flight
ShutdownObserved ==
    /\ LoggingCall(FALSE)
    /\ obs' = [op |-> "shutdown", waited |-> StopLogging("logging") = "suspended"]

\* setting 13, Time Interval(ti): dev.timeInterval = ti; when logging,
\* logging(False) then logging(True)
TimeIntervalCall(ti) ==
    /\ timeInterval' = ti
    /\ LET how == StopLogging("interval")
       IN  IF how = "noop"
           THEN /\ lastStop' = NoStop
                /\ UNCHANGED <<isLogging, loop, loops, cycles, stopped>>
           ELSE IF how = "suspended"
           THEN /\ loops' = [loops EXCEPT ![loop].running = FALSE,
                                          ![loop].waiter = "interval"]
                /\ lastStop' = NoStop
                /\ UNCHANGED <<isLogging, loop, cycles, stopped>>
           ELSE LET stoppedLoops == [loops EXCEPT ![loop].running = FALSE,
                                                  ![loop].call = IF @ = "pending" THEN "none" ELSE @]
                    free == {l \in LoopIds : ~stoppedLoops[l].running
                                              /\ stoppedLoops[l].call # "inflight"}
                IN  /\ free # {}
                    /\ loop' = MinOf(free)
                    /\ loops' = [stoppedLoops EXCEPT ![MinOf(free)] = NewLoop(ti)]
                    /\ cycles' = [cycles EXCEPT ![MinOf(free)] = NewCycle]
                    /\ isLogging' = TRUE
                    /\ lastStop' = StopReturns(SchedInFlight)
                    /\ stopped' = FALSE
    /\ done' = NoDone
    /\ UNCHANGED <<watchers, wstate, data_vault, currentDay, errors, store, today, faults>>

TimeIntervalCmd(ti) == TimeIntervalCall(ti) /\ UNCHANGED obs

\* The same setting, observed: the interval asked for, the flag it found and
\* whether it changed the scheduler
TimeIntervalObserved(ti) ==
    /\ TimeIntervalCall(ti)
    /\ obs' = [op |-> "interval", ti |-> ti, was |-> isLogging,
               changed |-> (isLogging' # isLogging \/ loops' # loops \/ cycles' # cycles)]

\* setting 10, Take Point: a cycle is started and not waited for
TakePointCmd(c) ==
    /\ c \in OobIds
    /\ ~InFlight(c)
    /\ \A d \in OobIds : d < c => InFlight(d)
    /\ cycles' = [cycles EXCEPT ![c] = NewCycle]
    /\ done' = NoDone
    /\ lastStop' = NoStop
    /\ UNCHANGED <<watchers, wstate, isLogging, timeInterval, data_vault, currentDay,
                   errors, loop, loops, store, today, faults, stopped, obs>>

\* A variant of new_dataset that leaves the handle in place: the properties
\* of new_dataset must reject it.
NewDatasetKeepingHandle ==
    /\ done' = NoDone
    /\ lastStop' = NoStop
    /\ UNCHANGED <<watchers, wstate, isLogging, timeInterval, data_vault, currentDay, errors,
                   loop, loops, cycles, store, today, faults, stopped>>

\* setting 11, New Dataset: DRLogger.new_dataset
NewDatasetCall ==
    /\ data_vault' = FALSE
    /\ done' = NoDone
    /\ lastStop' = NoStop
    /\ UNCHANGED <<watchers, wstate, isLogging, timeInterval, currentDay, errors, loop,
                   loops, cycles, store, today, faults, stopped>>

NewDatasetCmd == NewDatasetCall /\ UNCHANGED obs

\* The same setting, observed: whether the handle is cleared, whether it was
\* clear already (a call following another), and whether the call changed
\* any other field of the session
NewDatasetObserved ==
    /\ NewDatasetCall
    /\ obs' = [op |-> "new_dataset",
               cleared |-> ~data_vault',
               again |-> obs.op = "new_dataset" /\ ~data_vault,
               kept |-> <<isLogging', timeInterval', currentDay', errors', loop', loops',
                          cycles', wstate', store'>>
                        = <<isLogging, timeInterval, currentDay, errors, loop, loops,
                            cycles, wstate, store>>,
               same |-> data_vault' = data_vault]

\* Midnight passes
AdvanceDay ==
    /\ today < MaxDay
    /\ today' = today + 1
    /\ done' = NoDone
    /\ lastStop' = NoStop
    /\ UNCHANGED <<watchers, wstate, isLogging, timeInterval, data_vault, currentDay,
                   errors, loop, loops, cycles, store, faults, stopped, obs>>

\* ---------------------------------------------------------- configurations
\* The watcher lists the sessions are built with (DRLogger.connect)
Configs ==
    {<<Watcher("mks", Device(<<"a">>), Flow(GaugeNames[NGauges])),
       Watcher("diodes", NoDevice, NoFlow)>>,
     <<Watcher("ruox", NoDevice, NoFlow),
       Watcher("mks", NoDevice, Flow("He"))>>}

NoObs == [op |-> "none"]

\* The session as DRLogger.connect leaves it: logging, the first cycle of the
\* first loop started
InitOf(configs, budget) ==
    /\ today = 1
    /\ faults = budget
    /\ watchers \in configs
    /\ wstate = [w \in 1..Len(watchers) |-> WState(FALSE, Unset)]
    /\ isLogging = TRUE
    /\ timeInterval = 1
    /\ data_vault = FALSE
    /\ currentDay = 0
    /\ errors = <<>>
    /\ loop = 1
    /\ loops = [l \in LoopIds |-> IF l = 1 THEN NewLoop(1) ELSE DeadLoop]
    /\ cycles = [c \in CycleIds |-> IF c = 1 THEN NewCycle ELSE Idle]
    /\ store = [open |-> FALSE, dataset |-> NoDataset]
    /\ done = NoDone
    /\ lastStop = NoStop
    /\ stopped = FALSE
    /\ obs = NoObs

\* The session whose scheduling is explored: one watcher
SchedConfigs == {<<Watcher("mks", NoDevice, NoFlow)>>}

Init == InitOf(SchedConfigs, Budget(MaxFaults))
InitCycle == InitOf(Configs, NoLimit)

CycleStep == \E c \in CycleIds : Poll(c) \/ Vars(c) \/ New(c) \/ Add(c)

\* Every interleaving of the scheduler, the settings and the cycles, within
\* one day
Next ==
    \/ CycleStep
    \/ \E l \in LoopIds : Tick(l)
    \/ \E start \in BOOLEAN : LoggingCmd(start)
    \/ \E ti \in 1..MaxSchedInterval : TimeIntervalCmd(ti)
    \/ \E c \in OobIds : TakePointCmd(c)
    \/ NewDatasetCmd

Spec == Init /\ [][Next]_vars

\* No cycle is in flight
Quiet == \A c \in CycleIds : ~InFlight(c)

NextCycle ==
    \/ CycleStep
    \/ \E l \in LoopIds : Tick(l)
    \/ NewDatasetCmd
    \/ AdvanceDay

SpecCycle == InitCycle /\ [][NextCycle]_vars

\* The same, where every remote call is answered and the reactor fires a
\* delayed call that is due
SpecCycleFair ==
    /\ InitCycle /\ [][NextCycle]_vars
    /\ WF_vars(CycleStep)
    /\ WF_vars(\E l \in LoopIds : Tick(l))

\* The scheduler's cycles with New Dataset commands, observed, at any time
NextNewDataset ==
    \/ CycleStep
    \/ \E l \in LoopIds : Tick(l)
    \/ NewDatasetObserved

SpecNewDataset == InitCycle /\ [][NextNewDataset]_vars

\* The scheduler under Logging and Time Interval commands and a shutdown
NextShutdown ==
    \/ CycleStep
    \/ \E l \in LoopIds : Tick(l)
    \/ \E start \in BOOLEAN : LoggingCmd(start)
    \/ \E ti \in 1..MaxInterval : TimeIntervalCmd(ti)
    \/ obs.op # "shutdown" /\ ShutdownObserved

SpecShutdown == Init /\ [][NextShutdown]_vars

\* The scheduler under Logging commands and a shutdown
NextStop ==
    \/ CycleStep
    \/ \E l \in LoopIds : Tick(l)
    \/ \E start \in BOOLEAN : LoggingCmd(start)
    \/ obs.op # "shutdown" /\ ShutdownObserved

SpecStop == Init /\ [][NextStop]_vars

\* The scheduler under Logging commands alone
NextLogging ==
    \/ CycleStep
    \/ \E l \in LoopIds : Tick(l)
    \/ \E start \in BOOLEAN : LoggingObserved(start)

SpecLogging == Init /\ [][NextLogging]_vars

\* The scheduler under Logging and Time Interval commands
NextInterval ==
    \/ CycleStep
    \/ \E l \in LoopIds : Tick(l)
    \/ \E start \in BOOLEAN : LoggingObserved(start)
    \/ \E ti \in 1..MaxInterval : TimeIntervalObserved(ti)

SpecInterval == Init /\ [][NextInterval]_vars

\* ------------------------------------------------- a watcher on its own
CallIds == 1..MaxCalls

\* Every watcher a registry entry can configure
WatcherConfigs ==
    {Watcher("mks", d, f) : d \in DeviceOptions,
                            f \in {NoFlow, Flow("He")} \cup {Flow(GaugeNames[k]) : k \in 1..NGauges}}
    \cup {Watcher(kind, d, NoFlow) : kind \in {"diodes", "ruox"}, d \in DeviceOptions}

InitWatcher ==
    /\ today = 1
    /\ faults = NoLimit
    /\ watchers \in {<<w>> : w \in WatcherConfigs}
    /\ wstate = <<WState(FALSE, Unset)>>
    /\ isLogging = FALSE
    /\ timeInterval = 1
    /\ data_vault = FALSE
    /\ currentDay = 0
    /\ errors = <<>>
    /\ loop = 1
    /\ loops = [l \in LoopIds |-> DeadLoop]
    /\ cycles = [c \in CycleIds |-> Idle]
    /\ store = [open |-> FALSE, dataset |-> NoDataset]
    /\ done = NoDone
    /\ lastStop = NoStop
    /\ stopped = FALSE
    /\ obs = [op |-> "none", started |-> [k \in CallIds |-> WState(FALSE, Unset)]]

\* take_point is called on the watcher, whatever calls on it are in flight;
\* obs.started keeps the watcher's state each call in flight found
WatcherCall(k) ==
    /\ cycles[k].pc = "idle"
    /\ cycles' = [cycles EXCEPT ![k] = [Idle EXCEPT !.pc = "call", !.call = NewCall(FALSE)]]
    /\ obs' = [op |-> "none", started |-> [obs.started EXCEPT ![k] = wstate[1]]]
    /\ UNCHANGED <<watchers, wstate, isLogging, timeInterval, data_vault, currentDay, errors,
                   loop, loops, store, today, faults, done, lastStop, stopped>>

\* An answer to call k of the watcher's take_point arrives; when the call
\* ends obs describes it
WatcherTakePoint(k) ==
    /\ cycles[k].pc = "call"
    /\ \E o \in CallTurns(1, watchers[1], wstate[1], cycles[k].call) :
          /\ wstate' = <<o.ws>>
          /\ IF o.fin
             THEN /\ cycles' = [cycles EXCEPT ![k] = Idle]
                  /\ obs' = [op |-> "take_point",
                             started |-> [obs.started EXCEPT ![k] = WState(FALSE, Unset)],
                             before |-> obs.started[k],
                             out |-> TPOut(o.exc, o.msg, o.r, o.ws, o.call.sel, o.call.trace)]
             ELSE /\ cycles' = [cycles EXCEPT ![k].call = o.call]
                  /\ obs' = [op |-> "none", started |-> obs.started]
    /\ UNCHANGED <<watchers, isLogging, timeInterval, data_vault, currentDay, errors, loop,
                   loops, store, today, faults, done, lastStop, stopped>>

NextWatcher == \E k \in CallIds : WatcherCall(k) \/ WatcherTakePoint(k)

SpecWatcher == InitWatcher /\ [][NextWatcher]_vars

\* ------------------------------------------------- select_device on its own
InitSelect ==
    /\ today = 1
    /\ faults = NoLimit
    /\ watchers = <<>>
    /\ wstate = <<>>
    /\ isLogging = FALSE
    /\ timeInterval = 1
    /\ data_vault = FALSE
    /\ currentDay = 0
    /\ errors = <<>>
    /\ loop = 1
    /\ loops = [l \in LoopIds |-> DeadLoop]
    /\ cycles = [c \in CycleIds |-> Idle]
    /\ store = [open |-> FALSE, dataset |-> NoDataset]
    /\ done = NoDone
    /\ lastStop = NoStop
    /\ stopped = FALSE
    /\ \E d \in DeviceOptions, devs \in DevLists :
          obs = [op |-> "args", device |-> d, devs |-> devs,
                 choice |-> [kind |-> "none", name |-> <<>>]]

\* select_device chooses among the devices listed
ApplySelect ==
    /\ obs.op = "args"
    /\ obs' = [obs EXCEPT !.op = "select_device",
                          !.choice = SelectChoice(obs.device, obs.devs)]
    /\ UNCHANGED <<watchers, wstate, isLogging, timeInterval, data_vault, currentDay, errors,
                   loop, loops, cycles, store, today, faults, done, lastStop, stopped>>

SpecSelect == InitSelect /\ [][ApplySelect]_vars

\* ======================================================== properties: cycles
\* `done` describes the cycle that ended in the last step.
Count(ops, x) == Cardinality({k \in 1..Len(ops) : ops[k] = x})
Has(ops, x) == \E k \in 1..Len(ops) : ops[k] = x
FirstAt(ops, x) == CHOOSE k \in 1..Len(ops) : ops[k] = x /\ \A j \in 1..(k - 1) : ops[j] # x

\* Some watcher polled in the cycle failed / every watcher was polled and succeeded
SomeFailed(polled) == \E k \in 1..Len(polled) : polled[k].res # "ok"
AllOk(polled) == Len(polled) = NW /\ \A k \in 1..NW : polled[k].res = "ok"

\* The (source, message) pairs of the watchers that failed, in watcher order
RECURSIVE FailedPairs(_)
FailedPairs(polled) ==
    IF polled = <<>> THEN <<>>
    ELSE (IF Head(polled).res # "ok"
          THEN <<<<ServerName(watchers[Head(polled).w].kind), Head(polled).res>>>>
          ELSE <<>>) \o FailedPairs(Tail(polled))

\* The number of variables watcher i declares (the length of its get_variables)
DeclaredCount(i) ==
    CASE watchers[i].kind = "diodes" -> Len(DiodesVars)
      [] watchers[i].kind = "ruox" -> Len(RuoxVars)
      [] watchers[i].kind = "mks" ->
            Len(MKSVars([k \in 1..NGauges |-> Val(i, k, 1, "Torr")], GaugeNames, wstate[i].channel))

RECURSIVE DeclaredUpTo(_)
DeclaredUpTo(n) == IF n = 0 THEN 0 ELSE DeclaredCount(n) + DeclaredUpTo(n - 1)

\* C1: a cycle in which some watcher's take_point fails makes no add, and
\* ends with the error list equal to the failed watchers' (source, message)
\* pairs, in watcher order.
C1_FailedWatchersRecorded ==
    (done.c # 0 /\ SomeFailed(done.polled))
        => /\ ~Has(done.ops, "add")
           /\ errors = FailedPairs(done.polled)

\* C2: every cycle polls every configured watcher exactly once, in the
\* configured order, whatever the watchers before it answered.
C2_EveryWatcherPolled ==
    done.c # 0 => [k \in 1..Len(done.polled) |-> done.polled[k].w] = [k \in 1..NW |-> k]

\* C5: after a completed cycle the error list is empty exactly when the
\* cycle was clean: every watcher read and the row appended.
CleanCycle == AllOk(done.polled) /\ done.ops # <<>> /\ Last(done.ops) = "added"
C5_EmptyIffClean ==
    done.c # 0 => ((errors = <<>>) <=> CleanCycle)

\* C7: a configured device name that matches no listed device makes the
\* watcher fail with NoSuchDeviceError, recorded in the error list under the
\* watcher's source.
C7_NoMatchRecorded ==
    done.c # 0 =>
        \A k \in 1..Len(done.polled) :
            done.polled[k].nomatch =>
                /\ done.polled[k].res = "No such device"
                /\ \E e \in 1..Len(errors) :
                      errors[e] = <<ServerName(watchers[done.polled[k].w].kind), "No such device">>

\* C8: no row taken on a later day is appended to a dataset created on an
\* earlier day (a row starts with its timestamp, a dataset is named for the
\* day it was created).
C8_NoRowInOlderDataset ==
    \A row \in store.dataset.rows : row[1][2] <= store.dataset.day
\* The store calls of the cycle that ended: adds issued, dataset creations
\* attempted, and what followed the first add's "dataset not found" answer
Adds == Count(done.ops, "add")
Makes == Count(done.ops, "make") + Count(done.ops, "make:KeyError")
AddLostDataset == Has(done.ops, "add:NoDataset")
AfterLoss == SubSeq(done.ops, FirstAt(done.ops, "add:NoDataset") + 1, Len(done.ops))
Recreations == Count(AfterLoss, "make") + Count(AfterLoss, "make:KeyError")

\* C3 (as stated): when every watcher succeeds the row has 1 + the declared
\* variable counts entries and add is attempted exactly once, or, when the
\* first add answers "dataset not found", there is exactly one re-creation
\* and exactly one further add; never more than two adds.
C3_AddExactlyOnce ==
    /\ done.c # 0 => Adds <= 2
    /\ (done.c # 0 /\ AllOk(done.polled)) =>
          /\ Len(done.row) = 1 + DeclaredUpTo(NW)
          /\ IF AddLostDataset
             THEN Recreations = 1 /\ Adds = 2
             ELSE Adds = 1

\* The first add answered "dataset not found" and no dataset creation had
\* failed before it in the cycle
FirstFailureIsLoss ==
    /\ AddLostDataset
    /\ ~Has(SubSeq(done.ops, 1, FirstAt(done.ops, "add:NoDataset")), "make:failed")

\* A New Dataset command cleared the handle under the cycle: the new or the
\* add it was about to issue failed on None
HandleCleared ==
    Has(done.ops, "add:AttributeError") \/ Has(done.ops, "make:AttributeError")

\* C3 (amended): when every watcher succeeds the row has 1 + the declared
\* variable counts entries; add is attempted at most once, and not at all
\* only when the cycle ended in a failed dataset creation or found its handle
\* cleared under it; except that a first add answering "dataset not found",
\* no creation having failed before it in the cycle, is followed by exactly
\* one re-creation attempt and, only if that succeeds and the handle is still
\* there, by exactly one further add; no cycle makes more than two adds or
\* two creation attempts, and a cycle with a failed watcher makes none.
C3_AddAtMostOncePerDataset ==
    /\ done.c # 0 => (Adds <= 2 /\ Makes <= 2)
    /\ (done.c # 0 /\ ~AllOk(done.polled)) => Adds = 0
    /\ (done.c # 0 /\ AllOk(done.polled)) =>
          /\ Len(done.row) = 1 + DeclaredUpTo(NW)
          /\ IF FirstFailureIsLoss
             THEN /\ Recreations = 1
                  /\ Adds = (IF Has(AfterLoss, "made") /\ ~HandleCleared THEN 2 ELSE 1)
             ELSE /\ Adds <= 1
                  /\ Adds = 0 <=> Last(done.ops) \in {"make:failed", "make:KeyError",
                                                       "make:AttributeError",
                                                       "add:AttributeError"}

\* C3 witness: a clean read whose first add lost the dataset, re-created it
\* and appended the row with the second add
C3_Witness ==
    /\ done.c # 0
    /\ AllOk(done.polled)
    /\ AddLostDataset
    /\ Adds = 2
    /\ Last(done.ops) = "added"

\* C4: a first add answering "dataset not found" whose recreate-and-retry
\* fails leaves exactly one generic record and makes no third attempt; a
\* first add failing otherwise leaves exactly one generic record, no retry.
GenericRecord(e) == e[1] \in {"General", "Data Vault"}
C4_StoreFailureRecorded ==
    (done.c # 0 /\ Has(done.ops, "add")) =>
        /\ (AddLostDataset /\ Last(done.ops) # "added") =>
              /\ Len(errors) = 1
              /\ GenericRecord(errors[1])
              /\ Adds <= 2
        /\ (done.ops[FirstAt(done.ops, "add") + 1] = "add:failed") =>
              /\ Len(errors) = 1
              /\ GenericRecord(errors[1])
              /\ Adds = 1
\* ====================================================== properties: watcher
\* `obs` describes the stand-alone take_point call made in the last step.
Called == obs.op = "take_point"
Trace == obs.out.trace
Reads == Cardinality({k \in 1..Len(Trace) : Trace[k][1] = "_take_point"})
Selections == Cardinality({k \in 1..Len(Trace) : Trace[k][1] = "select_device"})
FirstReadUnselected == Trace # <<>> /\ Trace[1] = <<"_take_point", DNS>>

\* C6 (as stated): a "DeviceNotSelectedError" of the read triggers exactly
\* one select_device followed by exactly one retry of the read; a failed
\* retry propagates; at most two reads and one selection per call.
C6_SelectThenRetry ==
    Called =>
        /\ Reads <= 2
        /\ Selections <= 1
        /\ FirstReadUnselected =>
              /\ Selections = 1
              /\ Reads = 2
              /\ Len(Trace) = 3
              /\ Trace[2][1] = "select_device"
              /\ ResultOf(obs.out) = Trace[3][2]

\* C6 (amended): a "DeviceNotSelectedError" of the read triggers exactly one
\* select_device; only if the selection succeeds is the read retried,
\* exactly once, and the retry's outcome is the call's outcome; a failed
\* selection propagates without a retry; any other outcome of the first read
\* is the call's outcome with no selection; at most two reads and one
\* selection per call.
C6_SelectThenRetryIfSelected ==
    Called =>
        /\ Reads <= 2
        /\ Selections <= 1
        /\ Len(Trace) <= 3
        /\ FirstReadUnselected =>
              /\ Len(Trace) >= 2
              /\ Trace[2][1] = "select_device"
              /\ IF Trace[2][2] = "ok"
                 THEN /\ Len(Trace) = 3
                      /\ Trace[3][1] = "_take_point"
                      /\ ResultOf(obs.out) = Trace[3][2]
                 ELSE /\ Len(Trace) = 2
                      /\ ResultOf(obs.out) = Trace[2][2]
        /\ (Trace # <<>> /\ ~FirstReadUnselected) =>
              /\ Len(Trace) = 1
              /\ ResultOf(obs.out) = Trace[1][2]

\* C6 witness: the read failed unselected, the device was selected, and the
\* retry failed unselected again: the call fails with that error
C6_Witness ==
    /\ Called
    /\ Trace = <<<<"_take_point", DNS>>, <<"select_device", "ok">>, <<"_take_point", DNS>>>>
    /\ obs.out.exc = "T"
    /\ obs.out.msg = DNS

\* The selection rules of select_device: no name configured, the default
\* selection; a name listed exactly, that name; otherwise the first listed
\* name containing it; no name selected only if none contains it.
SelectionRules ==
    obs.op = "select_device" =>
        LET d == obs.device
            devs == obs.devs
            ch == obs.choice
        IN  /\ ~d.has => ch.kind = "default"
            /\ (d.has /\ \E i \in 1..Len(devs) : devs[i][2] = d.name)
                  => ch = [kind |-> "named", name |-> d.name]
            /\ (d.has /\ ch.kind = "named") =>
                  \E i \in 1..Len(devs) :
                      /\ devs[i][2] = ch.name
                      /\ IsSubstring(d.name, ch.name)
                      /\ (ch.name # d.name =>
                            \A j \in 1..(i - 1) : ~IsSubstring(d.name, devs[j][2]))
            /\ (d.has /\ ch.kind = "nomatch") <=>
                  (d.has /\ \A i \in 1..Len(devs) : ~IsSubstring(d.name, devs[i][2]))

\* =================================================== properties: scheduling
\* C9: a logging(False) call returns only when no scheduler-driven cycle is
\* in flight, and once it has returned none is in flight until logging(True).
C9_StopReturnsIdle ==
    /\ lastStop.n = 1 => ~lastStop.inflight
    /\ stopped => ~SchedInFlight

\* C10: no two cycles of the session are in flight at the same time.
C10_OneCycleAtATime ==
    Cardinality({c \in CycleIds : InFlight(c)}) <= 1
\* Every setting issued has returned: none is suspended on a loop's deferred
AllReturned == \A l \in LoopIds : loops[l].waiter = "none"
RunningLoops == {l \in LoopIds : loops[l].running}

\* C11: logging(True) while logging and logging(False) while idle change
\* nothing; once every Logging command has returned the session is logging
\* exactly when the last one issued asked to start, with at most one
\* scheduler loop running.
C11_LastLoggingCommandWins ==
    obs.op = "logging" =>
        /\ obs.was = obs.start => ~obs.changed
        /\ AllReturned =>
              /\ isLogging = obs.start
              /\ Cardinality(RunningLoops) <= 1
\* C12: setting the interval while idle changes only the stored interval;
\* while logging, the scheduler is restarted: once the setting has returned
\* the session is logging on one loop that ticks at the new interval; and a
\* Logging(False) issued while the change is in progress is not overridden
\* by the restart.
C12_IntervalRestart ==
    /\ obs.op = "interval" =>
          /\ timeInterval = obs.ti
          /\ ~obs.was => ~obs.changed
          /\ (obs.was /\ AllReturned) =>
                /\ isLogging
                /\ Cardinality(RunningLoops) = 1
                /\ \A l \in RunningLoops : loops[l].interval = obs.ti
    /\ (obs.op = "logging" /\ ~obs.start /\ AllReturned) => ~isLogging
\* ================================================= properties: new_dataset
\* A cycle leaves its polling phase with every watcher read
LeavesPollsAllOk(c) ==
    /\ cycles[c].pc = "poll"
    /\ \/ cycles'[c].pc \in {"vars", "add"}
       \/ done'.c = c /\ AllOk(done'.polled)

\* With no dataset handle, the store phase starts with make_dataset
CreatesFirst ==
    \A c \in CycleIds :
        (LeavesPollsAllOk(c) /\ ~data_vault) =>
            \/ cycles'[c].pc = "vars" /\ cycles'[c].ops = <<"make">>
            \/ done'.c = c /\ done'.ops = <<"make:KeyError">>

\* A cycle that started by making a dataset adds only after the creation succeeded
AddsAfterCreation ==
    (done.c # 0 /\ done.ops # <<>> /\ done.ops[1] = "make" /\ Has(done.ops, "add"))
        => (Has(done.ops, "made") /\ FirstAt(done.ops, "made") < FirstAt(done.ops, "add"))

\* A new_dataset call clears the handle and nothing else; a call that finds
\* the handle clear changes nothing
NewDatasetIdempotent ==
    obs.op = "new_dataset" =>
        /\ obs.cleared
        /\ obs.kept
        /\ obs.again => obs.same

\* C13: new_dataset is idempotent (a second call in a row leaves the session
\* as the first left it: no handle, every other field unchanged), and a cycle
\* in which every watcher succeeds and that finds no handle creates a
\* dataset before it appends.
C13_NewDatasetIdempotent ==
    /\ [](NewDatasetIdempotent /\ AddsAfterCreation)
    /\ [][CreatesFirst]_vars

\* C13 witness: new_dataset was called twice in a row and the next cycle
\* created a dataset and then appended its row to it
C13_Witness ==
    /\ obs.op = "new_dataset"
    /\ obs.again
    /\ done.c # 0
    /\ done.ops = <<"make", "made", "add", "added">>
    /\ store.dataset.rows = {done.row}
\* ==================================================== properties: shutdown
\* shutdown() has been called and has returned
ShutdownCompleted == obs.op = "shutdown" /\ AllReturned

\* C14: once shutdown() has completed the scheduler is stopped, and no
\* later command makes the session log again.
C14_ShutdownTerminal ==
    ShutdownCompleted => (~isLogging /\ RunningLoops = {} /\ ~SchedInFlight)
\* ========================================= properties: failures and the loop
\* The cycle that just ended failed: a watcher or the store failed, or an
\* unexpected exception ended it
CycleFailed == done.c # 0 /\ (done.aborted \/ done.errs # <<>>)

\* The session is logging and its LoopingCall waits for its next call
LoopWaiting ==
    isLogging /\ loops[loop].running /\ loops[loop].call = "pending" /\ ~InFlight(loop)

\* C15: whatever fails during a cycle, the cycle terminates, the session
\* stays logging with its scheduler loop running, and the scheduler
\* eventually fires the next cycle.
C15_FailureNeverStopsLogger ==
    /\ [](CycleFailed => LoopWaiting)
    /\ (SchedInFlight ~> Quiet)
    /\ (CycleFailed ~> SchedInFlight)

\* A cycle ended by an unexpected exception, the loop still running
C15_Witness == CycleFailed /\ done.aborted /\ LoopWaiting
\* ============================================ properties: failed creations
\* The cycle that just ended stopped at a failed make_dataset: a watcher's
\* get_variables failed or the store rejected the creation
CreationFailed == done.c # 0 /\ done.ops # <<>> /\ Last(done.ops) = "make:failed"

\* C16: after a cycle whose dataset creation failed the session holds no
\* current dataset handle, so that the next cycle in which every watcher
\* succeeds attempts the creation again.
C16_FailedCreationLeavesNoHandle == CreationFailed => ~data_vault
\* ======================================= properties: commands during a cycle
\* C17: a New Dataset command issued while a cycle is in flight takes effect
\* only after that cycle: no cycle finds the handle cleared under it when it
\* issues its new or its add, and a cycle that created its dataset appends
\* its row.
C17_NewDatasetSerialized ==
    done.c # 0 =>
        /\ ~Has(done.ops, "make:AttributeError")
        /\ ~Has(done.ops, "add:AttributeError")
        /\ Has(done.ops, "made") => Has(done.ops, "add")
\* ================================================= properties: stop drains
\* C18: a cycle in flight when logging(False) or shutdown() is requested
\* runs to completion (its row is appended when its watchers succeeded), and
\* the stop request returns with the session idle: not logging, no scheduler
\* loop running and no scheduler cycle in flight.
C18_StopDrains ==
    /\ (done.c # 0 /\ AllOk(done.polled)) => Last(done.ops) = "added"
    /\ lastStop.n = 1 => (~isLogging /\ RunningLoops = {} /\ ~SchedInFlight)
\* ============================================ properties: the active flag
\* C19: after a take_point call that returns a reading the watcher's active
\* flag is true, and after one that propagates a failure it is false.
C19_ActiveReflectsLastCall ==
    Called => (obs.out.ws.active <=> obs.out.exc = "none")
\* ======================================== properties: the MKS flow channel
\* The call observed was made on an MKS watcher configured with a flow
\* channel label and a multiplier
FlowCalled == Called /\ watchers[1].kind = "mks" /\ watchers[1].flow.has
\* That call looked the label up and no gauge name matched
LookupMissed == obs.before.channel = Unset /\ obs.out.ws.channel = NoChannel

\* C20: the derived channel is resolved at most once; once fixed every
\* reading gains multiplier * reading[channel]; when no gauge name matches
\* the channel is disabled and the read in which the lookup happened still
\* returns the plain gauge readings (or reports that the server sent none).
C20_FlowChannelResolvedOnce ==
    FlowCalled =>
        /\ obs.before.channel # Unset => obs.out.ws.channel = obs.before.channel
        /\ (obs.out.exc = "none" /\ obs.out.ws.channel # NoChannel) =>
              /\ obs.out.ws.channel \in 0..(NGauges - 1)
              /\ Len(obs.out.r) = NGauges + 1
              /\ obs.out.r[NGauges + 1] =
                    Val(1, obs.out.ws.channel + 1, watchers[1].flow.rate, "Torr")
        /\ LookupMissed =>
              \/ obs.out.exc = "none" /\ Len(obs.out.r) = NGauges
              \/ obs.out.msg = NOD
\* ============================================ properties: dataset schema
\* What watcher i's get_variables returns in the watcher's present state
DeclaredVars(i) ==
    CASE watchers[i].kind = "diodes" -> DiodesVars
      [] watchers[i].kind = "ruox" -> RuoxVars
      [] watchers[i].kind = "mks" ->
            MKSVars([k \in 1..NGauges |-> Val(i, k, 1, "Torr")], GaugeNames, wstate[i].channel)

RECURSIVE DeclaredVarsUpTo(_)
DeclaredVarsUpTo(n) ==
    IF n = 0 THEN <<>> ELSE DeclaredVarsUpTo(n - 1) \o DeclaredVars(n)

\* The variable that describes the row entry e = <<watcher, index, multiplier>>:
\* the gauge, diode or ruox channel the value was read from, or the derived
\* flow (the only value that carries a multiplier)
VarOf(e) ==
    CASE watchers[e[1]].kind = "diodes" -> Var(DIODE_LIST[e[2]], "Diode", "K")
      [] watchers[e[1]].kind = "ruox" ->
            IF e[2] <= NRuox
            THEN Var(RuoxNames[e[2]], "Ruox", "K")
            ELSE Var(RuoxNames[e[2] - NRuox], "Ruox Res", "Ohm")
      [] watchers[e[1]].kind = "mks" ->
            IF e[3] = 1 THEN Var(GaugeNames[e[2]], "Pressure", "Torr") ELSE HeFlowVar

\* C21: every dataset is declared with the one independent variable
\* 'time [s]' and with the watchers' get_variables outputs concatenated in
\* watcher-list order, and every row appended to it is the timestamp followed
\* by the readings in that same order.
C21_SchemaMatchesRows ==
    /\ store.open =>
          /\ store.dataset.indeps = <<"time [s]">>
          /\ store.dataset.deps = DeclaredVarsUpTo(NW)
    /\ \A row \in store.dataset.rows :
          /\ Len(row) = 1 + Len(store.dataset.deps)
          /\ row[1][1] = 0
          /\ \A j \in 1..Len(store.dataset.deps) :
                /\ row[j + 1][1] \in 1..NW
                /\ store.dataset.deps[j] = VarOf(row[j + 1])
                /\ j > 1 => row[j][1] <= row[j + 1][1]

\* C21 witness: a dataset declared with the gauges, the derived flow and the
\* diodes holds a row
C21_Witness ==
    /\ store.open
    /\ store.dataset.rows # {}
    /\ Len(store.dataset.deps) = NGauges + 1 + NDiodes
    /\ store.dataset.deps[NGauges + 1] = HeFlowVar
\* ===================================== properties: frame of a failed cycle
\* The session fields a cycle with a failed watcher must leave alone, and
\* the open dataset
FrameKept == UNCHANGED <<data_vault, currentDay, isLogging, timeInterval, store>>

\* Every step a polling cycle takes and stays polling, and the step in which
\* a cycle with a failed watcher ends, keeps the frame
FailedCycleFrame ==
    /\ \A c \in CycleIds :
          (cycles[c].pc = "poll" /\ cycles'[c].pc = "poll" /\ cycles'[c] # cycles[c])
              => FrameKept
    /\ (done'.c # 0 /\ SomeFailed(done'.polled)) => FrameKept

\* C22: a cycle in which some watcher fails changes nothing in the session
\* except the error list: it ends in its polling phase without a store call,
\* and the dataset handle, the creation-day marker, the running flag and the
\* interval are as they were, even if the day has changed.
C22_FailedCycleChangesOnlyErrors ==
    /\ []((done.c # 0 /\ SomeFailed(done.polled)) => done.ops = <<>>)
    /\ [][FailedCycleFrame]_vars

\* C22 witness: a cycle with a failed watcher ended after the day changed,
\* the handle and the older day marker still in place
C22_Witness ==
    /\ done.c # 0
    /\ SomeFailed(done.polled)
    /\ errors = FailedPairs(done.polled)
    /\ data_vault
    /\ currentDay # Strftime_d(today)
====
